---- MODULE Spec2Model ----
(***************************************************************************)
(* The handlers of the file service: the folder archive pipeline of        *)
(* fileController.ts (the sequential handler getDownloadCompleteFolderSvc  *)
(* and the concurrent handler getDownloadNestedCompleteFolderSvc), its     *)
(* upload handler uploadFileOnAwsS3, and the presigned-URL handlers of     *)
(* linkGenerateUrlController.ts, over a local file system and an object    *)
(* store.  Strings are sequences of one-character strings; a local path    *)
(* is a sequence of segments below the application directory.              *)
(***************************************************************************)
EXTENDS Integers, Sequences, FiniteSets, TLC

\* ---------------------------------------------------------------- bounds
MaxSessions == 2
MaxObjects == 3

\* ------------------------------------------------------- string helpers
Ord(c) ==
  CASE c = "." -> 46 [] c = "/" -> 47 [] c = "a" -> 97 [] c = "b" -> 98
    [] c = "n" -> 110 [] c = "p" -> 112 [] OTHER -> 0

startsWith(str, pre) ==
  Len(pre) <= Len(str) /\ SubSeq(str, 1, Len(pre)) = pre

endsWith(str, suf) ==
  Len(suf) <= Len(str) /\ SubSeq(str, Len(str) - Len(suf) + 1, Len(str)) = suf

\* String.prototype.indexOf, 1-based; 0 when pat does not occur
indexOf(str, pat) ==
  LET hits == {k \in 1..(Len(str) - Len(pat) + 1) :
                 SubSeq(str, k, k + Len(pat) - 1) = pat}
  IN IF hits = {} THEN 0 ELSE CHOOSE k \in hits : \A j \in hits : k <= j

\* str.replace(pat, ''): the first occurrence of pat is removed
replaceFirst(str, pat) ==
  LET k == indexOf(str, pat)
  IN IF k = 0 THEN str
     ELSE SubSeq(str, 1, k - 1) \o SubSeq(str, k + Len(pat), Len(str))

\* str.replace(/^\//, ''): one leading separator is removed
stripLeadingSlash(str) ==
  IF Len(str) > 0 /\ str[1] = "/" THEN Tail(str) ELSE str

RECURSIVE StrLess(_, _)
StrLess(x, y) ==
  IF Len(x) = 0 THEN Len(y) > 0
  ELSE IF Len(y) = 0 THEN FALSE
  ELSE IF x[1] = y[1] THEN StrLess(Tail(x), Tail(y))
  ELSE Ord(x[1]) < Ord(y[1])

RECURSIVE SortKeys(_)
SortKeys(S) ==
  IF S = {} THEN <<>>
  ELSE LET m == CHOOSE k \in S : \A j \in S \ {k} : StrLess(k, j)
       IN <<m>> \o SortKeys(S \ {m})

\* ---------------------------------------------------------- path helpers
RECURSIVE splitFrom(_, _)
splitFrom(str, cur) ==
  IF Len(str) = 0 THEN <<cur>>
  ELSE IF str[1] = "/" THEN <<cur>> \o splitFrom(Tail(str), <<>>)
  ELSE splitFrom(Tail(str), Append(cur, str[1]))

split(str) == splitFrom(str, <<>>)

RECURSIVE normalizeOnto(_, _)
normalizeOnto(acc, segs) ==
  IF Len(segs) = 0 THEN acc
  ELSE LET g == segs[1]
       IN IF g = <<>> \/ g = <<".">> THEN normalizeOnto(acc, Tail(segs))
          ELSE IF g = <<".", ".">>
               THEN normalizeOnto(IF Len(acc) = 0 THEN acc
                                  ELSE SubSeq(acc, 1, Len(acc) - 1), Tail(segs))
          ELSE normalizeOnto(Append(acc, g), Tail(segs))

\* path.join(base, name) for a normalized base
pathJoin(base, name) == normalizeOnto(base, split(name))

dirname(p) == IF Len(p) = 0 THEN p ELSE SubSeq(p, 1, Len(p) - 1)

IsPrefix(p, q) == Len(p) <= Len(q) /\ SubSeq(q, 1, Len(p)) = p

Prefixes(p) == {SubSeq(p, 1, k) : k \in 1..Len(p)}

\* ------------------------------------------------ session paths and ids
Sessions == 1..MaxSessions

NoId == <<>>

IdPool == {<<"u", ToString(i)>> : i \in Sessions}

ZipExt == <<".", "z", "i", "p">>

rootPath == << <<"s3_download">> >>

folderPathOf(id) == Append(rootPath, id)

zipFilePathOf(id) == Append(rootPath, id \o ZipExt)

\* ------------------------------------------------------- the object store
KeyPool ==
  { <<"p", "/", "a">>, <<"p", "/", "n", "/", "p">>,
    <<"p", "/">>, <<"p", "/", "a", "/", "b">>, <<"p", "/", "n", "/">> }

Buckets == {B \in SUBSET KeyPool : Cardinality(B) <= MaxObjects}

\* ListObjectsV2 with Prefix: the keys with that prefix, in key order
Listing(B, prefix) == SortKeys({k \in B : startsWith(k, prefix)})

Queries ==
  { [given |-> FALSE, val |-> <<>>],
    [given |-> TRUE, val |-> <<>>],
    [given |-> TRUE, val |-> <<"p">>] }

Variants == {"sequential", "concurrent"}

\* ------------------------------------------------------------------ state
VARIABLES
  bucket,            \* keys held by the object store
  dirs, files,       \* local file system: directories and regular files
  pc,                \* where each request's main line is suspended
  variant,           \* which handler serves the request
  folder,            \* req.query.folder
  uniqueFolderName,  \* uuidv4() of the session
  Contents,          \* result of the listing call
  listed,            \* the listing call has returned a result
  downloadTasks,     \* per listed object: key, fileName, localFilePath, state
  getCalls,          \* keys for which a GetObjectCommand was sent
  listCalls,         \* number of ListObjectsV2Command calls sent
  status,            \* status of the response sent, 0 while none
  headersSent, writableEnded,
  clientAborted,
  conn,              \* "open", "lost" (closed, 'close' not yet emitted), "closed"
  observer,          \* the req.on('close') listener and its cleanup
  sendErr,           \* err handed to the sendFile callback
  entries,           \* paths stored in the archive, relative to folderPath
  cleanupRuns,       \* how many times removal of the session paths was started
  output,            \* the write stream on zipFilePath
  listening,         \* output.on('close') and output.on('error') are registered
  resHeaders,        \* header fields set on the response by the handler
  lateWrites         \* attempts to set headers or send on a started response

\* the upload handler and the presigned-URL handlers
VARIABLES
  objects,           \* object store: body and content type held under each key
  upPc,              \* uploadFileOnAwsS3: "idle" or "done"
  upFile,            \* req.file
  upFolder,          \* req.body.folder
  upKey,             \* Key of the PutObjectCommand
  putState,          \* the PutObjectCommand: "none", "inflight", "stored", "failed"
  upStatus, upBody,  \* response of the upload handler
  urlPc,             \* presigned-URL handler: "idle", "listing", "signing", "done"
  urlVariant,        \* "plain" (generateDownloadUrls) or "jwt"
  authHeader,        \* req.headers.authorization
  urlFolder,         \* req.query.folder
  urlTasks,          \* files.map(async (file) => ...): one task per file
  urlListCalls,      \* ListObjectsV2Command calls sent by the URL handler
  signCalls,         \* keys handed to getSignedUrl
  urlStatus, urlBody, \* response of the URL handler
  urlAfterUpload     \* the URL request arrived after the upload was answered 200

upv == <<upPc, upFile, upFolder, upKey, putState, upStatus, upBody>>
urlv == <<urlPc, urlVariant, authHeader, urlFolder, urlTasks, urlListCalls,
          signCalls, urlStatus, urlBody, urlAfterUpload>>
apiv == <<objects, upv, urlv>>

fsv == <<dirs, files>>
reqv == <<variant, folder, uniqueFolderName>>
fetchv == <<Contents, listed, downloadTasks, getCalls>>
respv == <<status, headersSent, writableEnded, lateWrites>>
archv == <<entries, output, listening, resHeaders>>
vars == <<bucket, dirs, files, pc, variant, folder, uniqueFolderName, Contents,
          listed, downloadTasks, getCalls, listCalls, status, headersSent,
          writableEnded, clientAborted, conn, observer, sendErr, entries,
          cleanupRuns, output, listening, resHeaders, lateWrites, apiv>>

folderPath(s) == folderPathOf(uniqueFolderName[s])

zipFilePath(s) == zipFilePathOf(uniqueFolderName[s])

\* ------------------------------------------------------- file system calls
\* fse.ensureDir(p): mkdir -p; fails when a component of p is a regular file
ensureDirOk(p) == Prefixes(p) \cap files = {}

ensureDirDirs(p) == dirs \cup Prefixes(p)

\* fse.remove(p): rm -rf, no error when p is absent
removeDirs(p) == {d \in dirs : ~IsPrefix(p, d)}

removeFiles(p) == {f \in files : ~IsPrefix(p, f)}

\* fs.createWriteStream(p) can open p for writing
writeOk(p) ==
  /\ Len(p) > 0
  /\ p \notin dirs
  /\ Len(p) = 1 \/ dirname(p) \in dirs

\* ----------------------------------------------------- request validation
\* (variant: only an absent parameter is rejected)
folderMissing_AbsentOnly(q) == ~q.given

\* !folder
folderMissing(q) == ~q.given \/ Len(q.val) = 0

\* (variant: the empty-listing check is left out)
listingEmpty_Never(c) == FALSE

\* !Contents || Contents.length === 0
listingEmpty(c) == Len(c) = 0

\* (variant: placeholder keys are not recognised)
isPlaceholder_Never(key) == FALSE

\* key.endsWith('/')
isPlaceholder(key) == endsWith(key, <<"/">>)

\* (variant: the prefix is not removed)
fileNameOf_KeepPrefix(key, prefix) == stripLeadingSlash(key)

\* key.replace(folder, '').replace(/^\//, '')
fileNameOf(key, prefix) == stripLeadingSlash(replaceFirst(key, prefix))

\* (variant: the generated name may repeat)
uuidv4_Repeating == IdPool

\* uuidv4(): a value no other session of this process has drawn
uuidv4 == IdPool \ {uniqueFolderName[t] : t \in Sessions}

\* res.status(code).send(...)
Respond(s, code) ==
  /\ status' = [status EXCEPT ![s] = code]
  /\ headersSent' = [headersSent EXCEPT ![s] = TRUE]
  /\ writableEnded' = [writableEnded EXCEPT ![s] = TRUE]
  /\ UNCHANGED lateWrites

Fulfilled == {"skipped", "done", "failed"}

Settled == Fulfilled \cup {"rejected"}

\* (variant: the first task to finish resolves the batch)
allFulfilled_Any(ts) == \E i \in 1..Len(ts) : ts[i].st \in Fulfilled

allFulfilled(ts) == \A i \in 1..Len(ts) : ts[i].st \in Fulfilled

\* where the main line resumes once the fetch stage has resolved
afterFetch(s) == "archiving"

\* await Promise.all(downloadTasks) / end of the for loop
pcAfterTask(s, ts) ==
  IF pc[s] = "fetching" /\ allFulfilled(ts) THEN afterFetch(s) ELSE pc[s]

\* Contents.map(async (obj) => ...) up to each task's first await
launch(c, prefix, fp) ==
  [i \in 1..Len(c) |->
     IF isPlaceholder(c[i])
     THEN [key |-> c[i], fileName |-> <<>>, localFilePath |-> <<>>,
           st |-> "skipped"]
     ELSE [key |-> c[i], fileName |-> fileNameOf(c[i], prefix),
           localFilePath |-> pathJoin(fp, fileNameOf(c[i], prefix)),
           st |-> "mkdir"]]

\* (variant: a client abort stops the tasks that have not settled)
taskRuns_StopOnAbort(s, i) ==
  /\ i \in 1..Len(downloadTasks[s])
  /\ ~clientAborted[s]
  /\ variant[s] = "sequential" =>
       /\ pc[s] = "fetching"
       /\ \A j \in 1..(i - 1) : downloadTasks[s][j].st \in Fulfilled

\* the task may take its next step
taskRuns(s, i) ==
  /\ i \in 1..Len(downloadTasks[s])
  /\ variant[s] = "sequential" =>
       /\ pc[s] = "fetching"
       /\ \A j \in 1..(i - 1) : downloadTasks[s][j].st \in Fulfilled

\* the main line has been resumed by the settlement of the fetch stage and
\* runs on, in the same turn of the event loop, to createWriteStream: no
\* event callback and no file-system completion is delivered in between
mainLineRunning(s) == pc[s] = "archiving"

\* no header field set by the handler yet
NoHeaders == [disposition |-> <<>>, type |-> ""]

\* Content-Disposition: attachment; filename=${folder}.zip and Content-Type
zipHeaders(q) == [disposition |-> q.val \o ZipExt, type |-> "application/zip"]

\* an object that was in the store before any upload of this run
OldObject == [body |-> "o", type |-> "t0"]

NoFile == [given |-> FALSE, name |-> <<>>, bytes |-> "", mimetype |-> ""]

\* the upload handler and the presigned-URL handlers before any request
ApiIdle ==
  /\ objects = [k \in bucket |-> OldObject]
  /\ upPc = "idle"
  /\ upFile = NoFile
  /\ upFolder = [given |-> FALSE, val |-> <<>>]
  /\ upKey = <<>>
  /\ putState = "none"
  /\ upStatus = 0
  /\ upBody = [message |-> "", fileUrl |-> <<>>]
  /\ urlPc = "idle"
  /\ urlVariant = "plain"
  /\ authHeader = [given |-> FALSE, val |-> <<>>]
  /\ urlFolder = [given |-> FALSE, val |-> <<>>]
  /\ urlTasks = <<>>
  /\ urlListCalls = 0
  /\ signCalls = {}
  /\ urlStatus = 0
  /\ urlBody = <<>>
  /\ urlAfterUpload = FALSE

\* the state before any request, the object store holding one of the key
\* sets BS
InitIn(BS) ==
  /\ bucket \in BS
  /\ dirs = {} /\ files = {}
  /\ pc = [s \in Sessions |-> "idle"]
  /\ variant = [s \in Sessions |-> "concurrent"]
  /\ folder = [s \in Sessions |-> [given |-> FALSE, val |-> <<>>]]
  /\ uniqueFolderName = [s \in Sessions |-> NoId]
  /\ Contents = [s \in Sessions |-> <<>>]
  /\ listed = [s \in Sessions |-> FALSE]
  /\ downloadTasks = [s \in Sessions |-> <<>>]
  /\ getCalls = [s \in Sessions |-> {}]
  /\ listCalls = [s \in Sessions |-> 0]
  /\ status = [s \in Sessions |-> 0]
  /\ headersSent = [s \in Sessions |-> FALSE]
  /\ writableEnded = [s \in Sessions |-> FALSE]
  /\ clientAborted = [s \in Sessions |-> FALSE]
  /\ conn = [s \in Sessions |-> "open"]
  /\ observer = [s \in Sessions |-> "none"]
  /\ sendErr = [s \in Sessions |-> FALSE]
  /\ entries = [s \in Sessions |-> {}]
  /\ cleanupRuns = [s \in Sessions |-> 0]
  /\ output = [s \in Sessions |-> "none"]
  /\ listening = [s \in Sessions |-> FALSE]
  /\ resHeaders = [s \in Sessions |-> NoHeaders]
  /\ lateWrites = [s \in Sessions |-> 0]
  /\ ApiIdle

Init == InitIn(Buckets)

\* ------------------------------------------------------ session start
\* the handler up to its first await: validation, uuid, paths
Request(s, v, q) ==
  /\ pc[s] = "idle"
  /\ variant' = [variant EXCEPT ![s] = v]
  /\ folder' = [folder EXCEPT ![s] = q]
  /\ IF folderMissing(q)
     THEN /\ Respond(s, 400)
          /\ pc' = [pc EXCEPT ![s] = "done"]
          /\ UNCHANGED uniqueFolderName
     ELSE /\ \E id \in uuidv4 :
               uniqueFolderName' = [uniqueFolderName EXCEPT ![s] = id]
          /\ pc' = [pc EXCEPT ![s] = "ensureRoot"]
          /\ UNCHANGED respv
  /\ UNCHANGED <<bucket, apiv, fsv, fetchv, listCalls, clientAborted, conn,
                 observer, sendErr, archv, cleanupRuns>>

\* await fse.ensureDir(rootPath)
EnsureRoot(s) ==
  /\ pc[s] = "ensureRoot"
  /\ dirs' = ensureDirDirs(rootPath)
  /\ pc' = [pc EXCEPT ![s] = "removeOld"]
  /\ UNCHANGED <<bucket, apiv, files, reqv, fetchv, listCalls, respv, clientAborted,
                 conn, observer, sendErr, archv, cleanupRuns>>

\* await fse.remove(folderPath)
RemoveOld(s) ==
  /\ pc[s] = "removeOld"
  /\ dirs' = removeDirs(folderPath(s))
  /\ files' = removeFiles(folderPath(s))
  /\ pc' = [pc EXCEPT ![s] = "mkStaging"]
  /\ UNCHANGED <<bucket, apiv, reqv, fetchv, listCalls, respv, clientAborted, conn,
                 observer, sendErr, archv, cleanupRuns>>

\* await fse.ensureDir(folderPath); the listing call is sent
MkStaging(s) ==
  /\ pc[s] = "mkStaging"
  /\ dirs' = ensureDirDirs(folderPath(s))
  /\ listCalls' = [listCalls EXCEPT ![s] = @ + 1]
  /\ pc' = [pc EXCEPT ![s] = "listing"]
  /\ UNCHANGED <<bucket, apiv, files, reqv, fetchv, respv, clientAborted, conn,
                 observer, sendErr, archv, cleanupRuns>>

\* ------------------------------------------------------------- listing
\* the listing call returns; 404 branch, or the observer is registered and
\* the fetch stage is started
ListOk(s) ==
  /\ pc[s] = "listing"
  /\ LET c == Listing(bucket, folder[s].val)
         ts == launch(c, folder[s].val, folderPath(s))
     IN /\ Contents' = [Contents EXCEPT ![s] = c]
        /\ listed' = [listed EXCEPT ![s] = TRUE]
        /\ IF listingEmpty(c)
           THEN /\ pc' = [pc EXCEPT ![s] = "rmEmpty"]
                /\ cleanupRuns' = [cleanupRuns EXCEPT ![s] = @ + 1]
                /\ UNCHANGED <<downloadTasks, observer>>
           ELSE /\ downloadTasks' = [downloadTasks EXCEPT ![s] = ts]
                /\ observer' = [observer EXCEPT ![s] =
                     IF variant[s] = "concurrent" THEN "armed" ELSE @]
                /\ pc' = [pc EXCEPT ![s] =
                     IF allFulfilled(ts) THEN afterFetch(s) ELSE "fetching"]
                /\ UNCHANGED cleanupRuns
  /\ UNCHANGED <<bucket, apiv, fsv, reqv, getCalls, listCalls, respv, clientAborted,
                 conn, sendErr, archv>>

\* the listing call fails: catch (err), 500
ListFail(s) ==
  /\ pc[s] = "listing"
  /\ Respond(s, 500)
  /\ pc' = [pc EXCEPT ![s] = "done"]
  /\ UNCHANGED <<bucket, apiv, fsv, reqv, fetchv, listCalls, clientAborted, conn,
                 observer, sendErr, archv, cleanupRuns>>

\* await fse.remove(folderPath); res.status(404)
RmEmpty(s) ==
  /\ pc[s] = "rmEmpty"
  /\ dirs' = removeDirs(folderPath(s))
  /\ files' = removeFiles(folderPath(s))
  /\ Respond(s, 404)
  /\ pc' = [pc EXCEPT ![s] = "done"]
  /\ UNCHANGED <<bucket, apiv, reqv, fetchv, listCalls, clientAborted, conn,
                 observer, sendErr, archv, cleanupRuns>>

\* --------------------------------------------------------- fetch stage
\* await fse.ensureDir(path.dirname(localFilePath)), outside the task's try:
\* on success the GetObjectCommand is sent, on failure the task rejects and
\* the main line, if it still awaits the fetch stage, lands in catch (err)
TaskEnsureDir(s, i) ==
  /\ taskRuns(s, i)
  /\ downloadTasks[s][i].st = "mkdir"
  /\ LET d == dirname(downloadTasks[s][i].localFilePath)
     IN IF ensureDirOk(d)
        THEN /\ dirs' = ensureDirDirs(d)
             /\ downloadTasks' = [downloadTasks EXCEPT ![s][i].st = "get"]
             /\ getCalls' = [getCalls EXCEPT ![s] = @ \cup {downloadTasks[s][i].key}]
             /\ UNCHANGED <<pc, respv>>
        ELSE /\ downloadTasks' = [downloadTasks EXCEPT ![s][i].st = "rejected"]
             /\ IF pc[s] = "fetching"
                THEN /\ Respond(s, 500)
                     /\ pc' = [pc EXCEPT ![s] = "done"]
                ELSE UNCHANGED <<pc, respv>>
             /\ UNCHANGED <<dirs, getCalls>>
  /\ UNCHANGED <<bucket, apiv, files, reqv, Contents, listed, listCalls, clientAborted, conn,
                 observer, sendErr, archv, cleanupRuns>>

\* (variant: a failed GetObjectCommand escapes the task and reaches catch (err))
TaskGetObject_Uncaught(s, i, ok) ==
  /\ taskRuns(s, i)
  /\ downloadTasks[s][i].st = "get"
  /\ LET ts == [downloadTasks[s] EXCEPT ![i].st = IF ok THEN "write" ELSE "failed"]
     IN /\ downloadTasks' = [downloadTasks EXCEPT ![s] = ts]
        /\ IF ~ok /\ pc[s] = "fetching"
           THEN /\ Respond(s, 500)
                /\ pc' = [pc EXCEPT ![s] = "done"]
           ELSE /\ pc' = [pc EXCEPT ![s] = pcAfterTask(s, ts)]
                /\ UNCHANGED respv
  /\ UNCHANGED <<bucket, apiv, fsv, reqv, Contents, listed, getCalls, listCalls,
                 clientAborted, conn, observer, sendErr, archv, cleanupRuns>>

\* the GetObjectCommand returns a Body (ok) or fails (caught and logged)
TaskGetObject(s, i, ok) ==
  /\ taskRuns(s, i)
  /\ downloadTasks[s][i].st = "get"
  /\ LET ts == [downloadTasks[s] EXCEPT ![i].st = IF ok THEN "write" ELSE "failed"]
     IN /\ downloadTasks' = [downloadTasks EXCEPT ![s] = ts]
        /\ pc' = [pc EXCEPT ![s] = pcAfterTask(s, ts)]
  /\ UNCHANGED <<bucket, apiv, fsv, reqv, Contents, listed, getCalls, listCalls, respv,
                 clientAborted, conn, observer, sendErr, archv, cleanupRuns>>

\* await pipeline(Body, fs.createWriteStream(localFilePath)): the file is
\* created when it can be opened; a failure of the open or of the body
\* stream (bodyOk = FALSE) is caught and logged
TaskWrite(s, i, bodyOk) ==
  /\ taskRuns(s, i)
  /\ downloadTasks[s][i].st = "write"
  /\ LET p == downloadTasks[s][i].localFilePath
         ts == [downloadTasks[s] EXCEPT ![i].st =
                  IF writeOk(p) /\ bodyOk THEN "done" ELSE "failed"]
     IN /\ files' = IF writeOk(p) THEN files \cup {p} ELSE files
        /\ downloadTasks' = [downloadTasks EXCEPT ![s] = ts]
        /\ pc' = [pc EXCEPT ![s] = pcAfterTask(s, ts)]
  /\ UNCHANGED <<bucket, apiv, dirs, reqv, Contents, listed, getCalls, listCalls, respv,
                 clientAborted, conn, observer, sendErr, archv, cleanupRuns>>

\* -------------------------------------------------------- archive stage
\* fs.createWriteStream(zipFilePath); archive.pipe(output)
ZipOpen(s) ==
  /\ pc[s] = "archiving"
  /\ files' = IF writeOk(zipFilePath(s)) THEN files \cup {zipFilePath(s)} ELSE files
  /\ output' = [output EXCEPT ![s] = "open"]
  /\ pc' = [pc EXCEPT ![s] =
       IF variant[s] = "sequential" THEN "readdir" ELSE "building"]
  /\ UNCHANGED <<bucket, apiv, dirs, reqv, fetchv, listCalls, respv, clientAborted,
                 conn, observer, sendErr, entries, listening, resHeaders,
                 cleanupRuns>>

\* sequential handler only: await fse.readdir(folderPath)
Readdir(s) ==
  /\ pc[s] = "readdir"
  /\ IF folderPath(s) \in dirs
     THEN /\ pc' = [pc EXCEPT ![s] = "building"]
          /\ UNCHANGED respv
     ELSE /\ Respond(s, 500)
          /\ pc' = [pc EXCEPT ![s] = "done"]
  /\ UNCHANGED <<bucket, apiv, fsv, reqv, fetchv, listCalls, clientAborted, conn,
                 observer, sendErr, archv, cleanupRuns>>

\* files below folderPath, relative to it
stagedFiles(fp) ==
  {SubSeq(f, Len(fp) + 1, Len(f)) : f \in {g \in files : IsPrefix(fp, g)}}

\* (variant: the zip is sent as soon as finalize() has resolved)
afterFinalize_SendNow == "sending"

\* after await archive.finalize() the handler registers its listeners on
\* output and returns
afterFinalize == "waitClose"

\* archive.directory(folderPath, false); await archive.finalize(); the
\* listeners on output are registered.  When folderPath is gone the walk
\* either finds nothing or raises an error nobody listens to (missingOk).
ArchiveBuild(s, missingOk) ==
  /\ pc[s] = "building"
  /\ IF folderPath(s) \in dirs
     THEN /\ entries' = [entries EXCEPT ![s] = stagedFiles(folderPath(s))]
          /\ listening' = [listening EXCEPT ![s] = TRUE]
          /\ pc' = [pc EXCEPT ![s] = afterFinalize]
     ELSE /\ entries' = [entries EXCEPT ![s] = {}]
          /\ listening' = [listening EXCEPT ![s] = missingOk]
          /\ pc' = [pc EXCEPT ![s] = IF missingOk THEN afterFinalize ELSE "crashed"]
  /\ UNCHANGED <<bucket, apiv, fsv, reqv, fetchv, listCalls, respv, clientAborted,
                 conn, observer, sendErr, output, resHeaders, cleanupRuns>>

\* the archive has ended and output has been handed its last chunk
outputDrained(s) == pc[s] = "waitClose"

\* output emits 'close'; the listener, when registered by then, sets the
\* headers and calls res.sendFile
OutputClose(s) ==
  /\ outputDrained(s)
  /\ output[s] = "open"
  /\ output' = [output EXCEPT ![s] = "closed"]
  /\ IF listening[s]
     THEN /\ resHeaders' = [resHeaders EXCEPT ![s] = zipHeaders(folder[s])]
          /\ pc' = [pc EXCEPT ![s] = "sending"]
     ELSE UNCHANGED <<resHeaders, pc>>
  /\ UNCHANGED <<bucket, apiv, fsv, reqv, fetchv, listCalls, respv, clientAborted,
                 conn, observer, sendErr, entries, listening, cleanupRuns>>

\* output emits 'error' before the handler has registered a listener: the
\* event is unhandled and is thrown out of the event loop
OutputErrorEarly(s) ==
  /\ pc[s] \in {"readdir", "building"}
  /\ output[s] = "open"
  /\ ~listening[s]
  /\ output' = [output EXCEPT ![s] = "errored"]
  /\ pc' = [pc EXCEPT ![s] = "crashed"]
  /\ UNCHANGED <<bucket, apiv, fsv, reqv, fetchv, listCalls, respv, clientAborted,
                 conn, observer, sendErr, entries, listening, resHeaders,
                 cleanupRuns>>

\* output.on('error'): 500, nothing is removed
OutputError(s) ==
  /\ pc[s] = "waitClose"
  /\ output[s] = "open"
  /\ listening[s]
  /\ output' = [output EXCEPT ![s] = "errored"]
  /\ Respond(s, 500)
  /\ pc' = [pc EXCEPT ![s] = "errored"]
  /\ UNCHANGED <<bucket, apiv, fsv, reqv, fetchv, listCalls, clientAborted, conn,
                 observer, sendErr, entries, listening, resHeaders,
                 cleanupRuns>>

\* the stream emits 'close' after 'error': the close listener calls
\* res.setHeader on a response already sent, which throws out of the listener
OutputCloseAfterError(s) ==
  /\ pc[s] = "errored"
  /\ lateWrites' = [lateWrites EXCEPT ![s] = @ + 1]
  /\ pc' = [pc EXCEPT ![s] = "crashed"]
  /\ UNCHANGED <<bucket, apiv, fsv, reqv, fetchv, listCalls, status, headersSent,
                 writableEnded, clientAborted, conn, observer, sendErr, archv,
                 cleanupRuns>>

\* ------------------------------------------------------------- response
\* res.sendFile starts: the file must exist and the connection be open
SendStart(s) ==
  /\ pc[s] = "sending"
  /\ IF zipFilePath(s) \in files /\ conn[s] = "open"
     THEN /\ status' = [status EXCEPT ![s] = 200]
          /\ headersSent' = [headersSent EXCEPT ![s] = TRUE]
          /\ pc' = [pc EXCEPT ![s] = "streaming"]
          /\ UNCHANGED <<writableEnded, lateWrites, sendErr>>
     ELSE /\ sendErr' = [sendErr EXCEPT ![s] = TRUE]
          /\ pc' = [pc EXCEPT ![s] = "sendCb"]
          /\ UNCHANGED respv
  /\ UNCHANGED <<bucket, apiv, fsv, reqv, fetchv, listCalls, clientAborted, conn,
                 observer, archv, cleanupRuns>>

\* the whole file went out
SendFinish(s) ==
  /\ pc[s] = "streaming"
  /\ conn[s] = "open"
  /\ writableEnded' = [writableEnded EXCEPT ![s] = TRUE]
  /\ pc' = [pc EXCEPT ![s] = "sendCb"]
  /\ UNCHANGED <<bucket, apiv, fsv, reqv, fetchv, listCalls, status, headersSent,
                 lateWrites, clientAborted, conn, observer, sendErr, archv,
                 cleanupRuns>>

\* the connection went away while the file was being streamed
SendAbort(s) ==
  /\ pc[s] = "streaming"
  /\ conn[s] # "open"
  /\ sendErr' = [sendErr EXCEPT ![s] = TRUE]
  /\ pc' = [pc EXCEPT ![s] = "sendCb"]
  /\ UNCHANGED <<bucket, apiv, fsv, reqv, fetchv, listCalls, respv, clientAborted,
                 conn, observer, archv, cleanupRuns>>

\* the sendFile callback up to its first await
SendCb(s) ==
  /\ pc[s] = "sendCb"
  /\ IF variant[s] = "concurrent" /\ clientAborted[s]
     THEN /\ pc' = [pc EXCEPT ![s] = "done"]
          /\ UNCHANGED <<respv, cleanupRuns>>
     ELSE IF variant[s] = "sequential" /\ sendErr[s] /\ headersSent[s]
     THEN /\ lateWrites' = [lateWrites EXCEPT ![s] = @ + 1]
          /\ pc' = [pc EXCEPT ![s] = "crashed"]
          /\ UNCHANGED <<status, headersSent, writableEnded, cleanupRuns>>
     ELSE /\ IF sendErr[s] /\ ~headersSent[s]
             THEN Respond(s, 500)
             ELSE UNCHANGED respv
          /\ cleanupRuns' = [cleanupRuns EXCEPT ![s] = @ + 1]
          /\ pc' = [pc EXCEPT ![s] = "rm1"]
  /\ UNCHANGED <<bucket, apiv, fsv, reqv, fetchv, listCalls, clientAborted, conn,
                 observer, sendErr, archv>>

\* await fse.remove(folderPath)
CleanupRm1(s) ==
  /\ pc[s] = "rm1"
  /\ dirs' = removeDirs(folderPath(s))
  /\ files' = removeFiles(folderPath(s))
  /\ pc' = [pc EXCEPT ![s] = "rm2"]
  /\ UNCHANGED <<bucket, apiv, reqv, fetchv, listCalls, respv, clientAborted, conn,
                 observer, sendErr, archv, cleanupRuns>>

\* (variant: removing a path that is already gone raises out of the callback)
CleanupRm2_Raises(s) ==
  /\ pc[s] = "rm2"
  /\ dirs' = removeDirs(zipFilePath(s))
  /\ files' = removeFiles(zipFilePath(s))
  /\ pc' = [pc EXCEPT ![s] =
       IF zipFilePath(s) \in files THEN "done" ELSE "crashed"]
  /\ UNCHANGED <<bucket, apiv, reqv, fetchv, listCalls, respv, clientAborted, conn,
                 observer, sendErr, archv, cleanupRuns>>

\* await fse.remove(zipFilePath)
CleanupRm2(s) ==
  /\ pc[s] = "rm2"
  /\ dirs' = removeDirs(zipFilePath(s))
  /\ files' = removeFiles(zipFilePath(s))
  /\ pc' = [pc EXCEPT ![s] = "done"]
  /\ UNCHANGED <<bucket, apiv, reqv, fetchv, listCalls, respv, clientAborted, conn,
                 observer, sendErr, archv, cleanupRuns>>

\* ---------------------------------------------------- client disconnect
\* the client closes the connection before the response has ended
ClientDisconnect(s) ==
  /\ pc[s] \notin {"idle", "done", "crashed"}
  /\ ~mainLineRunning(s)
  /\ conn[s] = "open"
  /\ ~writableEnded[s]
  /\ conn' = [conn EXCEPT ![s] = "lost"]
  /\ UNCHANGED <<bucket, apiv, fsv, pc, reqv, fetchv, listCalls, respv,
                 clientAborted, observer, sendErr, archv, cleanupRuns>>

\* req emits 'close'; a listener registered by then runs up to its first await
CloseEvent(s) ==
  /\ conn[s] = "lost"
  /\ ~mainLineRunning(s)
  /\ conn' = [conn EXCEPT ![s] = "closed"]
  /\ IF observer[s] = "armed"
     THEN IF ~writableEnded[s]
          THEN /\ clientAborted' = [clientAborted EXCEPT ![s] = TRUE]
               /\ observer' = [observer EXCEPT ![s] = "rm1"]
               /\ cleanupRuns' = [cleanupRuns EXCEPT ![s] = @ + 1]
          ELSE /\ observer' = [observer EXCEPT ![s] = "done"]
               /\ UNCHANGED <<clientAborted, cleanupRuns>>
     ELSE UNCHANGED <<clientAborted, observer, cleanupRuns>>
  /\ UNCHANGED <<bucket, apiv, fsv, pc, reqv, fetchv, listCalls, respv, sendErr,
                 archv>>

\* observer: await fse.remove(folderPath)
ObsRm1(s) ==
  /\ observer[s] = "rm1"
  /\ ~mainLineRunning(s)
  /\ dirs' = removeDirs(folderPath(s))
  /\ files' = removeFiles(folderPath(s))
  /\ observer' = [observer EXCEPT ![s] = "rm2"]
  /\ UNCHANGED <<bucket, apiv, pc, reqv, fetchv, listCalls, respv, clientAborted,
                 conn, sendErr, archv, cleanupRuns>>

\* observer: await fse.remove(zipFilePath)
ObsRm2(s) ==
  /\ observer[s] = "rm2"
  /\ ~mainLineRunning(s)
  /\ dirs' = removeDirs(zipFilePath(s))
  /\ files' = removeFiles(zipFilePath(s))
  /\ observer' = [observer EXCEPT ![s] = "done"]
  /\ UNCHANGED <<bucket, apiv, pc, reqv, fetchv, listCalls, respv, clientAborted,
                 conn, sendErr, archv, cleanupRuns>>

\* ------------------------------------------------------- specifications
Step(s) ==
  \/ \E v \in Variants, q \in Queries : Request(s, v, q)
  \/ EnsureRoot(s)
  \/ RemoveOld(s)
  \/ MkStaging(s)
  \/ ListOk(s)
  \/ ListFail(s)
  \/ RmEmpty(s)
  \/ \E i \in 1..MaxObjects : TaskEnsureDir(s, i)
  \/ \E i \in 1..MaxObjects, ok \in BOOLEAN : TaskGetObject(s, i, ok)
  \/ \E i \in 1..MaxObjects, ok \in BOOLEAN : TaskWrite(s, i, ok)
  \/ ZipOpen(s)
  \/ Readdir(s)
  \/ \E ok \in BOOLEAN : ArchiveBuild(s, ok)
  \/ OutputClose(s)
  \/ OutputErrorEarly(s)
  \/ OutputError(s)
  \/ OutputCloseAfterError(s)
  \/ SendStart(s)
  \/ SendFinish(s)
  \/ SendAbort(s)
  \/ SendCb(s)
  \/ CleanupRm1(s)
  \/ CleanupRm2(s)
  \/ ClientDisconnect(s)
  \/ CloseEvent(s)
  \/ ObsRm1(s)
  \/ ObsRm2(s)

\* one request served in isolation
Next == Step(1)

Spec == Init /\ [][Next]_vars

\* several requests in flight at once, in an environment without faults:
\* every object-store call and stream succeeds and no client disconnects
QuietStep(s) ==
  \/ \E v \in Variants : Request(s, v, [given |-> TRUE, val |-> <<"p">>])
  \/ EnsureRoot(s)
  \/ RemoveOld(s)
  \/ MkStaging(s)
  \/ ListOk(s)
  \/ RmEmpty(s)
  \/ \E i \in 1..MaxObjects : TaskEnsureDir(s, i)
  \/ \E i \in 1..MaxObjects : TaskGetObject(s, i, TRUE)
  \/ \E i \in 1..MaxObjects : TaskWrite(s, i, TRUE)
  \/ ZipOpen(s)
  \/ Readdir(s)
  \/ ArchiveBuild(s, TRUE)
  \/ OutputClose(s)
  \/ SendStart(s)
  \/ SendFinish(s)
  \/ SendCb(s)
  \/ CleanupRm1(s)
  \/ CleanupRm2(s)

InitMulti == Init /\ bucket \in {{}, {<<"p", "/", "a">>}}

NextMulti == \E s \in Sessions : QuietStep(s)

SpecMulti == InitMulti /\ [][NextMulti]_vars

\* one request whose client stays connected, every ready continuation or
\* event callback being run eventually by the event loop
LiveStep(s) ==
  \/ \E v \in Variants, q \in Queries : Request(s, v, q)
  \/ EnsureRoot(s)
  \/ RemoveOld(s)
  \/ MkStaging(s)
  \/ ListFail(s)
  \/ ListOk(s)
  \/ RmEmpty(s)
  \/ \E i \in 1..MaxObjects : TaskEnsureDir(s, i)
  \/ \E i \in 1..MaxObjects, ok \in BOOLEAN : TaskGetObject(s, i, ok)
  \/ \E i \in 1..MaxObjects, ok \in BOOLEAN : TaskWrite(s, i, ok)
  \/ ZipOpen(s)
  \/ Readdir(s)
  \/ ArchiveBuild(s, TRUE)
  \/ OutputClose(s)
  \/ OutputErrorEarly(s)
  \/ OutputError(s)
  \/ OutputCloseAfterError(s)
  \/ SendStart(s)
  \/ SendFinish(s)
  \/ SendCb(s)
  \/ CleanupRm1(s)
  \/ CleanupRm2(s)

NextLive == LiveStep(1)

SpecLive == Init /\ [][NextLive]_vars /\ WF_vars(NextLive)

\* keys whose part after the prefix is not a plain relative path: a '..'
\* segment, a repeated separator, no separator at all
PathKeyPool ==
  { <<"p", "/", "a">>, <<"p", "a">>, <<"p", "/", "/", "a">>,
    <<"p", "/", ".", ".", "/", "a">> }

PathBuckets == {B \in SUBSET PathKeyPool : Cardinality(B) <= MaxObjects}

InitPaths == InitIn(PathBuckets)

\* one request over such a store, in an environment without faults
NextPaths == QuietStep(1)

SpecPaths == InitPaths /\ [][NextPaths]_vars

\* one request to the concurrent handler whose client may disconnect at any
\* time, every ready continuation or event callback being run eventually
AbortStep(s) ==
  \/ \E q \in Queries : Request(s, "concurrent", q)
  \/ EnsureRoot(s)
  \/ RemoveOld(s)
  \/ MkStaging(s)
  \/ ListFail(s)
  \/ ListOk(s)
  \/ RmEmpty(s)
  \/ \E i \in 1..MaxObjects : TaskEnsureDir(s, i)
  \/ \E i \in 1..MaxObjects, ok \in BOOLEAN : TaskGetObject(s, i, ok)
  \/ \E i \in 1..MaxObjects, ok \in BOOLEAN : TaskWrite(s, i, ok)
  \/ ZipOpen(s)
  \/ \E ok \in BOOLEAN : ArchiveBuild(s, ok)
  \/ OutputClose(s)
  \/ OutputErrorEarly(s)
  \/ OutputError(s)
  \/ OutputCloseAfterError(s)
  \/ SendStart(s)
  \/ SendFinish(s)
  \/ SendAbort(s)
  \/ SendCb(s)
  \/ CleanupRm1(s)
  \/ CleanupRm2(s)
  \/ ClientDisconnect(s)
  \/ CloseEvent(s)
  \/ ObsRm1(s)
  \/ ObsRm2(s)

NextAbort == AbortStep(1)

SpecAbort == Init /\ [][NextAbort]_vars /\ WF_vars(NextAbort)

\* ------------------------------------------------- failing removals
\* empty-listing branch: await fse.remove(folderPath) rejects inside the
\* handler's try; catch (err) answers 500
RmEmptyFail(s) ==
  /\ pc[s] = "rmEmpty"
  /\ Respond(s, 500)
  /\ pc' = [pc EXCEPT ![s] = "done"]
  /\ UNCHANGED <<bucket, apiv, fsv, reqv, fetchv, listCalls, clientAborted, conn,
                 observer, sendErr, archv, cleanupRuns>>

\* sendFile callback: fse.remove rejects; catch (cleanupErr) logs it and the
\* callback ends
CleanupRmFail(s) ==
  /\ pc[s] \in {"rm1", "rm2"}
  /\ pc' = [pc EXCEPT ![s] = "done"]
  /\ UNCHANGED <<bucket, apiv, fsv, reqv, fetchv, listCalls, respv, clientAborted,
                 conn, observer, sendErr, archv, cleanupRuns>>

\* abort observer: fse.remove rejects; catch (err) logs it and the listener
\* ends
ObsRmFail(s) ==
  /\ observer[s] \in {"rm1", "rm2"}
  /\ ~mainLineRunning(s)
  /\ observer' = [observer EXCEPT ![s] = "done"]
  /\ UNCHANGED <<bucket, apiv, fsv, pc, reqv, fetchv, listCalls, respv,
                 clientAborted, conn, sendErr, archv, cleanupRuns>>

\* one request on a file system whose removals may fail
NextRm ==
  \/ Step(1)
  \/ RmEmptyFail(1)
  \/ CleanupRmFail(1)
  \/ ObsRmFail(1)

SpecRm == Init /\ [][NextRm]_vars

\* ------------------------------------------------ presigned-URL handlers
\* every variable of the archive handlers except the object store
archiveVars ==
  <<fsv, pc, reqv, fetchv, listCalls, respv, clientAborted, conn, observer,
    sendErr, archv, cleanupRuns>>

Bearer == <<"B", "e", "a", "r", "e", "r", " ">>

Basic == <<"B", "a", "s", "i", "c", " ">>

\* a token is written as two characters: the key it was signed with ("k" is
\* the shared secret, "z" another key) and its expiry ("1" ahead, "0" passed)
AuthHeaders ==
  { [given |-> FALSE, val |-> <<>>],
    [given |-> TRUE, val |-> <<>>],
    [given |-> TRUE, val |-> Basic \o <<"k", "1">>],
    [given |-> TRUE, val |-> Bearer],
    [given |-> TRUE, val |-> Bearer \o <<"k", "1">>],
    [given |-> TRUE, val |-> Bearer \o <<"k", "0">>],
    [given |-> TRUE, val |-> Bearer \o <<"z", "1">>],
    [given |-> TRUE, val |-> Bearer \o <<" ", "k", "1">>] }

UrlVariants == {"plain", "jwt"}

\* str.split(sep) for a one-character sep
RECURSIVE splitOnFrom(_, _, _)
splitOnFrom(str, sep, cur) ==
  IF Len(str) = 0 THEN <<cur>>
  ELSE IF str[1] = sep THEN <<cur>> \o splitOnFrom(Tail(str), sep, <<>>)
  ELSE splitOnFrom(Tail(str), sep, Append(cur, str[1]))

splitOn(str, sep) == splitOnFrom(str, sep, <<>>)

\* !authHeader || !authHeader.startsWith('Bearer ')
bearerMissing(h) == ~h.given \/ Len(h.val) = 0 \/ ~startsWith(h.val, Bearer)

\* authHeader.split(' ')[1]
tokenOf(h) == splitOn(h.val, " ")[2]

\* (variant: the expiry is not checked)
jwtVerify_NoExpiry(tok) == Len(tok) = 2 /\ tok[1] = "k"

\* jwt.verify(token, process.env.JWT_SECRET) returns instead of throwing
jwtVerify(tok) == Len(tok) = 2 /\ tok[1] = "k" /\ tok[2] = "1"

\* list.Contents?.filter(obj => !obj.Key?.endsWith('/')) || []
urlFiles(c) == SelectSeq(c, LAMBDA k : ~endsWith(k, <<"/">>))

\* the object returned by a task of files.map
entryOf(v, q, tk) ==
  IF v = "plain"
  THEN [filename |-> replaceFirst(tk.key, q.val \o <<"/">>),
        signedUrl |-> [key |-> tk.key, expiresIn |-> 60],
        contentType |-> tk.ctype]
  ELSE [filename |-> replaceFirst(tk.key, q.val \o <<"/">>),
        signedUrl |-> [key |-> tk.key, expiresIn |-> 60]]

\* res.status(code).json(body)
UrlRespond(code, body) ==
  /\ urlStatus' = code
  /\ urlBody' = body
  /\ urlPc' = "done"

\* the handler up to its first await: authentication (jwt), validation, and
\* the listing call is sent
UrlRequest(v, h, q) ==
  /\ urlPc = "idle"
  /\ urlVariant' = v
  /\ authHeader' = h
  /\ urlFolder' = q
  /\ urlAfterUpload' = (upStatus = 200)
  /\ IF v = "jwt" /\ bearerMissing(h)
     THEN UrlRespond(401, <<>>) /\ UNCHANGED urlListCalls
     ELSE IF v = "jwt" /\ ~jwtVerify(tokenOf(h))
     THEN UrlRespond(401, <<>>) /\ UNCHANGED urlListCalls
     ELSE IF folderMissing(q)
     THEN UrlRespond(400, <<>>) /\ UNCHANGED urlListCalls
     ELSE /\ urlListCalls' = urlListCalls + 1
          /\ urlPc' = "listing"
          /\ UNCHANGED <<urlStatus, urlBody>>
  /\ UNCHANGED <<bucket, objects, upv, urlTasks, signCalls, archiveVars>>

\* the listing returns: the non-placeholder keys are kept and one task per
\* file runs up to await getSignedUrl(...); no file: res.json({files: []})
UrlListOk ==
  /\ urlPc = "listing"
  /\ LET fs == urlFiles(Listing(bucket, urlFolder.val))
     IN IF Len(fs) = 0
        THEN /\ UrlRespond(200, <<>>)
             /\ UNCHANGED <<urlTasks, signCalls>>
        ELSE /\ urlTasks' = [i \in 1..Len(fs) |->
                               [key |-> fs[i], st |-> "sign", ctype |-> ""]]
             /\ signCalls' = {fs[i] : i \in 1..Len(fs)}
             /\ urlPc' = "signing"
             /\ UNCHANGED <<urlStatus, urlBody>>
  /\ UNCHANGED <<bucket, objects, upv, urlVariant, authHeader, urlFolder,
                 urlListCalls, urlAfterUpload, archiveVars>>

\* the listing call fails: catch (error), 500
UrlListFail ==
  /\ urlPc = "listing"
  /\ UrlRespond(500, <<>>)
  /\ UNCHANGED <<bucket, objects, upv, urlVariant, authHeader, urlFolder,
                 urlTasks, urlListCalls, signCalls, urlAfterUpload, archiveVars>>

\* await Promise.all(...): the first rejection gives 500, the last
\* fulfilment gives res.json({files: signedUrls})
UrlSettle(ts) ==
  IF urlPc # "signing"
  THEN UNCHANGED <<urlPc, urlStatus, urlBody>>
  ELSE IF \E i \in 1..Len(ts) : ts[i].st = "rejected"
  THEN UrlRespond(500, <<>>)
  ELSE IF \A i \in 1..Len(ts) : ts[i].st = "done"
  THEN UrlRespond(200, [i \in 1..Len(ts) |-> entryOf(urlVariant, urlFolder, ts[i])])
  ELSE UNCHANGED <<urlPc, urlStatus, urlBody>>

\* getSignedUrl settles; the plain handler then sends the HeadObjectCommand
UrlSign(i, ok) ==
  /\ i \in 1..Len(urlTasks)
  /\ urlTasks[i].st = "sign"
  /\ LET ts == [urlTasks EXCEPT ![i].st =
                  IF ~ok THEN "rejected"
                  ELSE IF urlVariant = "plain" THEN "head" ELSE "done"]
     IN urlTasks' = ts /\ UrlSettle(ts)
  /\ UNCHANGED <<bucket, objects, upv, urlVariant, authHeader, urlFolder,
                 urlListCalls, signCalls, urlAfterUpload, archiveVars>>

\* plain handler: the HeadObjectCommand settles with metadata.ContentType
UrlHead(i, ok) ==
  /\ i \in 1..Len(urlTasks)
  /\ urlTasks[i].st = "head"
  /\ LET ts == [urlTasks EXCEPT
                  ![i].st = IF ok THEN "done" ELSE "rejected",
                  ![i].ctype = IF ok THEN objects[urlTasks[i].key].type ELSE ""]
     IN urlTasks' = ts /\ UrlSettle(ts)
  /\ UNCHANGED <<bucket, objects, upv, urlVariant, authHeader, urlFolder,
                 urlListCalls, signCalls, urlAfterUpload, archiveVars>>

\* ------------------------------------------------------- upload handler
DefaultFolder ==
  <<"d", "e", "f", "a", "u", "l", "t", "-", "f", "o", "l", "d", "e", "r">>

UploadFiles ==
  {NoFile} \cup
  {[given |-> TRUE, name |-> <<n>>, bytes |-> "x", mimetype |-> "t1"] :
     n \in {"a", "b"}}

UploadFolders == {[given |-> FALSE, val |-> <<>>], [given |-> TRUE, val |-> <<"p">>]}

\* `${req.body.folder || 'default-folder'}/${req.file.originalname}`
uploadKey(fld, file) ==
  (IF ~fld.given \/ Len(fld.val) = 0 THEN DefaultFolder ELSE fld.val)
    \o <<"/">> \o file.name

\* the whole handler: no await in it.  s3Client.send(new PutObjectCommand)
\* is called and its promise dropped; 200 is sent in the same turn
UploadRequest(file, fld) ==
  /\ upPc = "idle"
  /\ upFile' = file
  /\ upFolder' = fld
  /\ upPc' = "done"
  /\ IF ~file.given
     THEN /\ upStatus' = 400
          /\ UNCHANGED <<upKey, putState, upBody>>
     ELSE /\ upKey' = uploadKey(fld, file)
          /\ putState' = "inflight"
          /\ upStatus' = 200
          /\ upBody' = [message |-> "File uploaded successfully!",
                        fileUrl |-> uploadKey(fld, file)]
  /\ UNCHANGED <<bucket, objects, urlv, archiveVars>>

\* the PutObjectCommand succeeds: the object is stored
PutOk ==
  /\ putState = "inflight"
  /\ putState' = "stored"
  /\ bucket' = bucket \cup {upKey}
  /\ objects' = [k \in bucket \cup {upKey} |->
                   IF k = upKey
                   THEN [body |-> upFile.bytes, type |-> upFile.mimetype]
                   ELSE objects[k]]
  /\ UNCHANGED <<upPc, upFile, upFolder, upKey, upStatus, upBody, urlv,
                 archiveVars>>

\* the PutObjectCommand fails: the rejection has no handler
PutFail ==
  /\ putState = "inflight"
  /\ putState' = "failed"
  /\ UNCHANGED <<bucket, objects, upPc, upFile, upFolder, upKey, upStatus,
                 upBody, urlv, archiveVars>>

\* one upload and one presigned-URL request, in any order
NextApi ==
  \/ \E v \in UrlVariants, h \in AuthHeaders, q \in Queries : UrlRequest(v, h, q)
  \/ UrlListOk
  \/ UrlListFail
  \/ \E i \in 1..MaxObjects, ok \in BOOLEAN : UrlSign(i, ok)
  \/ \E i \in 1..MaxObjects, ok \in BOOLEAN : UrlHead(i, ok)
  \/ \E file \in UploadFiles, fld \in UploadFolders : UploadRequest(file, fld)
  \/ PutOk
  \/ PutFail

SpecApi == Init /\ [][NextApi]_vars

\* ------------------------------------------------------------ properties
\* nothing of the request is still running or pending
Finished(s) ==
  /\ pc[s] \in {"done", "crashed"}
  /\ variant[s] = "concurrent" =>
       \A i \in 1..Len(downloadTasks[s]) : downloadTasks[s][i].st \in Settled
  /\ observer[s] \notin {"rm1", "rm2"}
  /\ conn[s] # "lost"

\* the session's staging directory has been created
StagingCreated(s) ==
  /\ uniqueFolderName[s] # NoId
  /\ pc[s] \notin {"ensureRoot", "removeOld", "mkStaging"}

noRejection(s) ==
  \A i \in 1..Len(downloadTasks[s]) : downloadTasks[s][i].st # "rejected"

PathsAbsent(s) ==
  /\ folderPath(s) \notin dirs
  /\ zipFilePath(s) \notin files

\* C1: concurrent endpoint: once a request has finished, on whatever exit
\* path, neither its staging directory nor its archive file exists.
C1_CleanupInvariant ==
  \A s \in Sessions :
    (variant[s] = "concurrent" /\ StagingCreated(s) /\ Finished(s))
      => PathsAbsent(s)

\* C2: concurrent endpoint: when the abort observer has fired and both it and
\* the rest of the pipeline (fetch batch, archive build, send callback) have
\* run to completion, the staging directory and the archive file are absent.
C2_AbortLeavesNothing ==
  \A s \in Sessions :
    (variant[s] = "concurrent" /\ clientAborted[s] /\ pc[s] = "done"
       /\ noRejection(s) /\ Finished(s))
      => PathsAbsent(s)

\* C3: on every exit path after the staging directory was created, removal
\* of the session's paths was started exactly once.
C3_CleanupExactlyOnce ==
  \A s \in Sessions :
    (StagingCreated(s) /\ Finished(s)) => cleanupRuns[s] = 1

\* C4: a request whose folder parameter is missing or empty is answered 400;
\* no staging directory, no archive file and no object-store call is made.
C4_MissingFolderRejected ==
  \A s \in Sessions :
    (pc[s] # "idle" /\ (~folder[s].given \/ folder[s].val = <<>>)) =>
      /\ status[s] = 400
      /\ pc[s] = "done"
      /\ uniqueFolderName[s] = NoId
      /\ listCalls[s] = 0 /\ getCalls[s] = {}
      /\ dirs = {} /\ files = {}

C4_Witness ==
  /\ \E s \in Sessions :
       /\ variant[s] = "sequential" /\ folder[s].given /\ folder[s].val = <<>>
       /\ status[s] = 400
  /\ bucket # {}

filesBelow(p) == {f \in files : IsPrefix(p, f)}

C6_Distinct ==
  \A s, t \in Sessions :
    (s # t /\ uniqueFolderName[s] # NoId /\ uniqueFolderName[t] # NoId) =>
      /\ folderPath(s) # folderPath(t)
      /\ zipFilePath(s) # zipFilePath(t)
      /\ zipFilePath(s) # folderPath(t)

C6_RemoveOldSpares ==
  \A s, t \in Sessions :
    (s # t /\ pc[s] = "removeOld" /\ pc'[s] = "mkStaging"
       /\ uniqueFolderName[t] # NoId) =>
      /\ (folderPath(t) \in dirs) <=> (folderPath(t) \in dirs')
      /\ filesBelow(folderPath(t)) = filesBelow(folderPath(t))'
      /\ (zipFilePath(t) \in files) <=> (zipFilePath(t) \in files')

\* C6: two requests in flight never share a staging directory or an archive
\* path, no archive path is another session's staging path, and the removal
\* of a pre-existing staging path at session start leaves every other
\* session's directory and archive as they were.
C6_SessionsDisjoint == [](C6_Distinct) /\ [][C6_RemoveOldSpares]_vars

C6_Witness ==
  \E s, t \in Sessions :
    /\ s # t
    /\ pc[s] = "mkStaging"
    /\ pc[t] = "building"
    /\ filesBelow(folderPath(t)) # {}
    /\ zipFilePath(t) \in files

\* the key with the leading prefix taken off, then one leading separator
relPathSpec(key, prefix) ==
  LET r == SubSeq(key, Len(prefix) + 1, Len(key))
  IN IF Len(r) > 0 /\ r[1] = "/" THEN SubSeq(r, 2, Len(r)) ELSE r

\* indices of the listed keys that are not placeholders
realKeys(s) ==
  {i \in 1..Len(downloadTasks[s]) :
     downloadTasks[s][i].key[Len(downloadTasks[s][i].key)] # "/"}

ArchivePcs ==
  {"archiving", "readdir", "building", "waitClose", "errored", "sending",
   "streaming", "sendCb", "rm1", "rm2", "crashed"}

BuiltPcs == {"waitClose", "errored", "sending", "streaming", "sendCb"}

\* C7: every non-placeholder key K listed under prefix P is written to
\* folderPath/R, R being K without the leading P and one leading separator;
\* nesting below P is kept and the archive holds exactly the staged files.
C7_RelativePaths ==
  \A s \in Sessions :
    /\ \A i \in realKeys(s) :
         LET tk == downloadTasks[s][i] IN
           /\ startsWith(tk.key, folder[s].val)
           /\ tk.fileName = relPathSpec(tk.key, folder[s].val)
           /\ tk.localFilePath = folderPath(s) \o split(tk.fileName)
           /\ (tk.st = "done" /\ cleanupRuns[s] = 0) => tk.localFilePath \in files
    /\ uniqueFolderName[s] # NoId =>
         filesBelow(folderPath(s)) \subseteq
           {downloadTasks[s][i].localFilePath : i \in realKeys(s)}
    /\ (pc[s] \in BuiltPcs /\ cleanupRuns[s] = 0) =>
         entries[s] = {split(downloadTasks[s][i].fileName) :
                         i \in {j \in realKeys(s) :
                                  downloadTasks[s][j].localFilePath \in files}}

C7_Witness ==
  \E s \in Sessions :
    /\ pc[s] = "waitClose" /\ variant[s] = "concurrent"
    /\ Contents[s] = << <<"p", "/", "a">>, <<"p", "/", "n", "/", "p">> >>
    /\ entries[s] = { << <<"a">> >>, << <<"n">>, <<"p">> >> }
    /\ folderPath(s) \o << <<"n">>, <<"p">> >> \in files

\* C8: for a listed key ending in '/', no GetObjectCommand is sent and
\* nothing is created in the staging directory or stored in the archive.
C8_PlaceholdersSkipped ==
  \A s \in Sessions :
    /\ \A i \in 1..Len(downloadTasks[s]) \ realKeys(s) :
         /\ downloadTasks[s][i].st = "skipped"
         /\ downloadTasks[s][i].key \notin getCalls[s]
    /\ uniqueFolderName[s] # NoId =>
         /\ \A f \in filesBelow(folderPath(s)) :
              \E i \in realKeys(s) :
                f = folderPath(s) \o
                      split(relPathSpec(downloadTasks[s][i].key, folder[s].val))
         /\ \A d \in dirs :
              (IsPrefix(folderPath(s), d) /\ d # folderPath(s)) =>
                \E i \in realKeys(s) :
                  /\ IsPrefix(d, folderPath(s) \o
                       split(relPathSpec(downloadTasks[s][i].key, folder[s].val)))
                  /\ d # folderPath(s) \o
                       split(relPathSpec(downloadTasks[s][i].key, folder[s].val))
    /\ \A e \in entries[s] :
         \E i \in realKeys(s) :
           e = split(relPathSpec(downloadTasks[s][i].key, folder[s].val))

C8_Witness ==
  \E s \in Sessions :
    /\ pc[s] = "waitClose"
    /\ Contents[s] = << <<"p", "/">>, <<"p", "/", "a">>, <<"p", "/", "n", "/">> >>
    /\ entries[s] = { << <<"a">> >> }
    /\ getCalls[s] = { <<"p", "/", "a">> }

failedTasks(s) ==
  {i \in 1..Len(downloadTasks[s]) : downloadTasks[s][i].st = "failed"}

\* C9: a failed download (get-object call or body write) of one listed object
\* does not stop the fetch stage, does not produce an error response, and
\* the other objects are fetched, archived and the zip is sent with 200.
C9_PartialSuccess ==
  \A s \in Sessions :
    /\ pc[s] = "fetching" =>
         \E i \in 1..Len(downloadTasks[s]) : downloadTasks[s][i].st \notin Settled
    /\ status[s] = 500 =>
         \/ ~listed[s]
         \/ ~noRejection(s)
         \/ pc[s] \in {"errored", "crashed"}
         \/ sendErr[s]
    /\ (pc[s] = "done" /\ conn[s] = "open" /\ listed[s] /\ noRejection(s)
          /\ Cardinality(failedTasks(s)) = 1) =>
         /\ status[s] = 200 /\ writableEnded[s]
         /\ \A j \in realKeys(s) \ failedTasks(s) :
              /\ downloadTasks[s][j].st = "done"
              /\ downloadTasks[s][j].key \in getCalls[s]
              /\ split(downloadTasks[s][j].fileName) \in entries[s]

C9_Witness ==
  \E s \in Sessions :
    /\ pc[s] = "done" /\ status[s] = 200 /\ conn[s] = "open"
    /\ Len(downloadTasks[s]) = 3 /\ realKeys(s) = {1, 2, 3}
    /\ Cardinality(failedTasks(s)) = 1
    /\ Cardinality(entries[s]) = 2

\* C10: concurrent endpoint: the archive file is opened and the archive is
\* built only when every fetch task of the session has settled.
C10_ArchiveAfterFetch ==
  \A s \in Sessions :
    (variant[s] = "concurrent"
       /\ (pc[s] \in ArchivePcs \/ zipFilePath(s) \in files \/ entries[s] # {})) =>
      \A i \in 1..Len(downloadTasks[s]) : downloadTasks[s][i].st \in Fulfilled

C10_Witness ==
  \E s \in Sessions :
    /\ variant[s] = "concurrent" /\ pc[s] = "building"
    /\ Cardinality(realKeys(s)) >= 2
    /\ Cardinality(failedTasks(s)) = 1
    /\ zipFilePath(s) \in files

\* C11: in both endpoints the Content-Disposition (attachment, <folder>.zip)
\* and Content-Type (application/zip) headers are set and the archive file is
\* streamed only after finalize() has resolved and the output stream has
\* emitted 'close'; the zip is never sent while it is still being written.
C11_SendAfterClose ==
  \A s \in Sessions :
    /\ (resHeaders[s] # NoHeaders \/ status[s] = 200
          \/ pc[s] \in {"sending", "streaming", "sendCb"}) =>
         /\ output[s] = "closed"
         /\ listening[s]
         /\ \A i \in 1..Len(downloadTasks[s]) : downloadTasks[s][i].st \in Settled
    /\ (status[s] = 200 \/ pc[s] \in {"sending", "streaming"}) =>
         /\ resHeaders[s].disposition = folder[s].val \o <<".", "z", "i", "p">>
         /\ resHeaders[s].type = "application/zip"

C11_Witness ==
  \E s \in Sessions :
    /\ variant[s] = "sequential" /\ pc[s] = "streaming" /\ status[s] = 200
    /\ output[s] = "closed" /\ entries[s] # {}
    /\ resHeaders[s].disposition = <<"p", ".", "z", "i", "p">>

\* C12: in both endpoints, when the archive output stream fails with an I/O
\* error (reported to the handler's 'error' listener), the request is answered
\* 500 and, once it has finished, the staging directory and the partial
\* archive file have been removed.
C12_ArchiveErrorCleansUp ==
  \A s \in Sessions :
    (output[s] = "errored" /\ listening[s]) =>
      /\ status[s] = 500
      /\ Finished(s) => PathsAbsent(s)

\* C13: for every archive request, once a response has been started (404, 500
\* or the zip send), no handler attempts to set a header or to send another
\* status or body on it.
C13_SingleResponse ==
  \A s \in Sessions : lateWrites[s] = 0

\* C14: with the client staying connected and every ready callback eventually
\* run, a request with a non-empty folder parameter is eventually answered
\* (404, 500 or the zip).
C14_EventuallyAnswered ==
  \A s \in Sessions :
    (pc[s] # "idle" /\ folder[s].given /\ folder[s].val # <<>>) ~> (status[s] # 0)

C15_Step ==
  \A s \in Sessions :
    /\ (pc[s] = "rmEmpty" /\ pc'[s] # "rmEmpty") => status'[s] = 404
    /\ (pc[s] \in {"rm1", "rm2"} /\ pc'[s] # pc[s]) => status'[s] = status[s]
    /\ (observer[s] \in {"rm1", "rm2"} /\ observer'[s] # observer[s]) =>
         status'[s] = status[s]

\* C15: whether a removal of the staging directory or of the archive file
\* succeeds or fails, the response is the same: the empty-listing path
\* answers 404, and the removals of the send callback and of the abort
\* observer leave the response status as it was.
C15_RemovalFailureHidden == [][C15_Step]_vars

\* what follows 'Bearer ' in the Authorization header
presentedToken(h) == SubSeq(h.val, 8, Len(h.val))

\* the header carries a token signed with the shared secret and not expired
validBearer(h) ==
  /\ h.given
  /\ Len(h.val) >= 7 /\ SubSeq(h.val, 1, 7) = <<"B", "e", "a", "r", "e", "r", " ">>
  /\ presentedToken(h) = <<"k", "1">>

\* C16: GET /generateJwtTokenDownloadUrl: a request whose Authorization
\* header is missing, does not start with 'Bearer ', or carries a token that
\* fails verification (wrong key or expired) is answered 401, and no listing
\* call and no URL-signing call is made for it.
C16_UnauthorizedRejected ==
  (urlPc # "idle" /\ urlVariant = "jwt" /\ ~validBearer(authHeader)) =>
    /\ urlStatus = 401
    /\ urlPc = "done"
    /\ urlListCalls = 0
    /\ signCalls = {} /\ urlTasks = <<>>

C16_Witness ==
  /\ urlVariant = "jwt" /\ urlStatus = 401
  /\ authHeader.val = <<"B", "e", "a", "r", "e", "r", " ", "k", "0">>
  /\ urlFolder.val = <<"p">>
  /\ <<"p", "/", "a">> \in bucket

\* C17: POST /uploadFilesOnAWSS3: 400 when no file is attached, 200 when the
\* put to the object store succeeded, 500 when it failed; never 200 for an
\* upload whose put failed.
C17_UploadStatus ==
  upPc = "done" =>
    /\ ~upFile.given => upStatus = 400
    /\ putState = "stored" => upStatus = 200
    /\ putState = "failed" => upStatus = 500

\* C18: once the upload of folder/name has been answered 200, a later
\* listing of that folder (generateDownloadUrls) that succeeds has an entry
\* for name whose target holds the uploaded bytes.
C18_UploadRoundTrip ==
  (upStatus = 200 /\ urlAfterUpload /\ urlVariant = "plain" /\ urlStatus = 200
     /\ upFolder.given /\ urlFolder = upFolder) =>
    \E i \in 1..Len(urlBody) :
      /\ urlBody[i].filename = upFile.name
      /\ urlBody[i].signedUrl.key \in DOMAIN objects
      /\ objects[urlBody[i].signedUrl.key].body = upFile.bytes

\* C19: a successful response of either presigned-URL endpoint has exactly
\* one entry per listed key that does not end in '/', none for a placeholder
\* key, and every entry carries filename, signedUrl and contentType (so the
\* JWT endpoint answers as the unauthenticated one does).
C19_UrlEntries ==
  urlStatus = 200 =>
    /\ Len(urlBody) = Cardinality(signCalls)
    /\ \A k \in signCalls : k[Len(k)] # "/"
    /\ \A k \in signCalls : \E i \in 1..Len(urlBody) : urlBody[i].signedUrl.key = k
    /\ \A i \in 1..Len(urlBody) :
         DOMAIN urlBody[i] = {"filename", "signedUrl", "contentType"}

\* C20: sequential endpoint: once the sendFile callback has run, whether the
\* send succeeded or failed (also after the headers had gone out), removal
\* was started and the staging directory and the archive file are gone.
C20_SequentialCleanup ==
  \A s \in Sessions :
    (variant[s] = "sequential" /\ Finished(s)
       /\ (sendErr[s] \/ (status[s] = 200 /\ writableEnded[s]))) =>
      /\ cleanupRuns[s] = 1
      /\ PathsAbsent(s)

\* local paths the fetch tasks of session s write to
ownPaths(s) ==
  {downloadTasks[s][i].localFilePath : i \in 1..Len(downloadTasks[s])}

C21_Step ==
  \A s \in Sessions :
    (variant[s] = "concurrent" /\ pc[s] = "archiving" /\ pc'[s] = "building") =>
      /\ folderPath(s) \in dirs
      /\ filesBelow(folderPath(s)) \subseteq ownPaths(s)

\* C21: concurrent endpoint: whenever the archive file is opened for writing
\* (also after a client abort during the fetch stage), the session's staging
\* directory exists and holds only files written by the session's own fetch
\* tasks.
C21_StagingPresentAtOpen == [][C21_Step]_vars

C22_Step ==
  \A s \in Sessions :
    (variant[s] = "concurrent" /\ StagingCreated(s) /\ ~writableEnded[s]
       /\ conn[s] = "lost" /\ conn'[s] = "closed") =>
      /\ clientAborted'[s]
      /\ cleanupRuns'[s] = cleanupRuns[s] + 1

\* C22: concurrent endpoint: the disconnect observer is in effect from
\* session start: a connection close delivered at any time after the staging
\* directory was created and before the response has ended (also while the
\* listing call is pending) marks the session aborted and starts cleanup.
C22_ObserverFromStart == [][C22_Step]_vars

\* C23: concurrent endpoint: every failure of one entry, a failure to create
\* its intermediate directories included, stays inside that entry's task: no
\* task rejects, and a request whose fetch tasks were started does not end
\* before the archive was opened.
C23_EntryFailuresCaught ==
  \A s \in Sessions :
    (variant[s] = "concurrent" /\ Len(downloadTasks[s]) > 0) =>
      /\ noRejection(s)
      /\ pc[s] = "done" => output[s] # "none"

allSettled(s) ==
  \A i \in 1..Len(downloadTasks[s]) : downloadTasks[s][i].st \in Settled

\* res.sendFile was called: it either started the response or reported an
\* error to its callback
sendAttempted(s) == status[s] = 200 \/ sendErr[s]

\* a step of the abort observer: only the flag, the observer's own position
\* and the session's two paths change
C24_Step ==
  \A s \in Sessions :
    (observer[s] \in {"armed", "rm1", "rm2"} /\ observer'[s] # observer[s]) =>
      /\ pc'[s] = pc[s]
      /\ downloadTasks'[s] = downloadTasks[s]
      /\ <<status, headersSent, writableEnded, sendErr, entries, output>>' =
           <<status, headersSent, writableEnded, sendErr, entries, output>>
      /\ \A d \in dirs \ dirs' : IsPrefix(folderPath(s), d)
      /\ \A f \in files \ files' :
           IsPrefix(folderPath(s), f) \/ f = zipFilePath(s)

C24_Built ==
  \A s \in Sessions :
    (clientAborted[s] /\ pc[s] = "done" /\ noRejection(s)) =>
      /\ allSettled(s)
      /\ output[s] # "none"
      /\ sendAttempted(s)

bothCleanups(s) == variant[s] = "concurrent" /\ cleanupRuns[s] = 2

C25_Final ==
  \A s \in Sessions :
    bothCleanups(s) =>
      /\ pc[s] # "crashed"
      /\ Finished(s) => PathsAbsent(s)

C25_Step ==
  \A s \in Sessions :
    (bothCleanups(s) /\ (pc'[s] # pc[s] \/ observer'[s] # observer[s])) =>
      /\ status'[s] = status[s]
      /\ lateWrites'[s] = lateWrites[s]

\* C25: concurrent endpoint: when the abort observer and the completion
\* handler both remove the session's paths, in whatever order their removals
\* interleave, removing a path that is already gone raises nothing, both
\* paths are absent at the end and the response is left as it was.
C25_DoubleCleanupSafe == []C25_Final /\ [][C25_Step]_vars

C25_Witness ==
  /\ bothCleanups(1)
  /\ Finished(1)
  /\ pc[1] = "done" /\ observer[1] = "done"

\* p lies strictly below the session's staging directory
insideStaging(s, p) == IsPrefix(folderPath(s), p) /\ p # folderPath(s)

C26_Step ==
  \A s \in Sessions :
    (Len(downloadTasks[s]) > 0 /\ downloadTasks'[s] # downloadTasks[s]) =>
      /\ \A d \in dirs' \ dirs : IsPrefix(folderPath(s), d)
      /\ \A f \in files' \ files : insideStaging(s, f)

\* C26: both endpoints: for every listed key, whatever segments follow the
\* prefix ('..' segments, repeated separators), every directory and every
\* file a fetch task creates lies inside the session's staging directory:
\* never in the staging root, another session's directory or an archive file.
C26_WritesInsideStaging == [][C26_Step]_vars

\* C27: the mapping from listed keys to staging paths is injective: no two
\* fetch tasks of one session that wrote their object wrote it to the same
\* local file.
C27_KeyToPathInjective ==
  \A s \in Sessions : \A i, j \in 1..Len(downloadTasks[s]) :
    (i # j /\ downloadTasks[s][i].st = "done" /\ downloadTasks[s][j].st = "done")
      => downloadTasks[s][i].localFilePath # downloadTasks[s][j].localFilePath

\* C28: concurrent endpoint: the cleanup of the abort observer and the
\* cleanup of the completion handler exclude each other: in no interleaving
\* do both start the removals for one session.
C28_CleanupsExclusive ==
  \A s \in Sessions : ~bothCleanups(s)

====
